---- MODULE Spec2Model ----
(***************************************************************************)
(* Model of the web search aggregation layer of langroid:                  *)
(*   langroid/parsing/web_search.py        WebSearchResult, google_search, *)
(*                                         metaphor_search                 *)
(*   langroid/agent/tools/metaphor_search_tool.py  MetaphorSearchTool      *)
(*                                                                         *)
(* Python strings are TLA+ strings (TLC evaluates Len, \o, SubSeq, Head    *)
(* and Tail on them); a Python list is a TLA+ sequence.                    *)
(***************************************************************************)
EXTENDS Integers, Sequences, FiniteSets, TLC

VARIABLES
    env,          \* os.environ: the variables of the process environment
    dotenv,       \* the variables the .env file gives (None: not in the file)
    entry,        \* the function the caller invoked
    num_results,  \* its num_results argument
    pc,           \* position of the running call
    raw_results,  \* the backend's hits, as parsed from its response
    idx,          \* number of hits whose page GET has been issued
    results,      \* the list the comprehension is building
    requests,     \* HTTP requests issued by the running call, in order
    fetched,      \* outcome of each page GET of the running call, in order
    error,        \* the exception that left the call, if any
    returned,     \* the list metaphor_search / google_search returned
    output,       \* the string MetaphorSearchTool.handle returned
    unit          \* one direct construction of a WebSearchResult

vars == <<env, dotenv, entry, num_results, pc, raw_results, idx, results, requests,
          fetched, error, returned, output, unit>>

callVars == <<env, dotenv, entry, num_results, pc, raw_results, idx, results,
              requests, fetched, error, returned, output>>

----------------------------------------------------------------------------
(* Bounds of the model *)

MaxHits == 3
MaxNumResults == 2
MaxNodes == 2
MaxLimit == 6
MaxNeg == 2

(* Program constants *)

DefaultMaxContentLength == 3500
DefaultMaxSummaryLength == 300

None == "<None>"

Min(a, b) == IF a <= b THEN a ELSE b
Max(a, b) == IF a >= b THEN a ELSE b

----------------------------------------------------------------------------
(* Python string and list primitives used by the code *)

\* s[:n], with Python's meaning of a negative or oversized bound
PySliceOffByOne(s, n) ==
    IF n >= 0 THEN SubSeq(s, 1, Min(n + 1, Len(s)))
              ELSE SubSeq(s, 1, Max(0, Len(s) + n + 1))

PySlice(s, n) ==
    IF n >= 0 THEN SubSeq(s, 1, Min(n, Len(s)))
              ELSE SubSeq(s, 1, Max(0, Len(s) + n))

\* s[n:], the slice a swapped colon would take
PySliceFrom(s, n) ==
    IF n >= 0 THEN SubSeq(s, Min(n, Len(s)) + 1, Len(s))
              ELSE SubSeq(s, Max(0, Len(s) + n) + 1, Len(s))

\* the characters str.strip() removes, as far as a string literal can hold
\* them: space, \n, \t, \r, \f, U+000B, U+001C..U+001F, U+0085, U+00A0 and
\* U+1680. (It also removes U+2000..U+200A, U+2028, U+2029, U+202F, U+205F
\* and U+3000, which the parser rejects inside a string.)
Whitespace ==
    {" ", "\n", "\t", "\r", "\f",
     "", "", "", "", "", "", " ", " "}

RECURSIVE LStrip(_)
LStrip(s) ==
    IF s = "" THEN ""
    ELSE IF Head(s) \in Whitespace THEN LStrip(Tail(s)) ELSE s

RECURSIVE RStrip(_)
RStrip(s) ==
    IF s = "" THEN ""
    ELSE IF SubSeq(s, Len(s), Len(s)) \in Whitespace
         THEN RStrip(SubSeq(s, 1, Len(s) - 1)) ELSE s

\* str.strip()
PyStrip(s) == LStrip(RStrip(s))

\* sep.join(parts)
RECURSIVE PyJoin(_, _)
PyJoin(sep, parts) ==
    IF parts = <<>> THEN ""
    ELSE IF Len(parts) = 1 THEN parts[1]
    ELSE parts[1] \o sep \o PyJoin(sep, Tail(parts))

----------------------------------------------------------------------------
(* WebSearchResult *)

\* soup.stripped_strings: every text node stripped, the empty ones dropped.
\* A page is the sequence of the text nodes of the parsed response.
RECURSIVE stripped_strings(_)
stripped_strings(page) ==
    IF page = <<>> THEN <<>>
    ELSE LET s == PyStrip(Head(page))
         IN  (IF s = "" THEN <<>> ELSE <<s>>) \o stripped_strings(Tail(page))

\* text = " ".join(soup.stripped_strings)
ExtractText(page) == PyJoin(" ", stripped_strings(page))

get_full_content_untruncated(page, max_content_length) == ExtractText(page)

get_full_content(page, max_content_length) ==
    PySlice(ExtractText(page), max_content_length)

get_summary_suffix(full_content, max_summary_length) ==
    PySliceFrom(full_content, max_summary_length)

get_summary(full_content, max_summary_length) ==
    PySlice(full_content, max_summary_length)

\* __init__, given the page requests.get(link) answered with
WebSearchResult(title, link, max_content_length, max_summary_length, page) ==
    LET full_content == get_full_content(page, max_content_length)
    IN  [title              |-> title,
         link               |-> link,
         max_content_length |-> max_content_length,
         max_summary_length |-> max_summary_length,
         full_content       |-> full_content,
         summary            |-> get_summary(full_content, max_summary_length)]

\* what an f-string prints for a value: a str as it is, None as "None"
PyFormat(v) == IF v = None THEN "None" ELSE v

\* __str__
ToStr(self) ==
    "Title: " \o PyFormat(self.title) \o "\nLink: " \o PyFormat(self.link)
              \o "\nSummary: " \o self.summary

----------------------------------------------------------------------------
(* Direct construction of one WebSearchResult with arbitrary limits *)

\* text nodes of a page: empty, whitespace-only, and text with leading,
\* trailing and inner ASCII whitespace
NodeStrings == {"", " ", "a", " a", "b\r", "\ta b", "a\nb"}

RECURSIVE SeqsUpTo(_, _)
SeqsUpTo(S, n) ==
    IF n = 0 THEN {<<>>}
    ELSE LET shorter == SeqsUpTo(S, n - 1)
         IN  shorter \cup {Append(q, x) : q \in shorter, x \in S}

UnitPages == SeqsUpTo(NodeStrings, MaxNodes)
Limits == (0 - MaxNeg) .. MaxLimit
UnitTitles == {"", "t"}
UnitLinks == {"u1"}

NoUnit == [state |-> "unused"]

UnitInputs ==
    [state : {"args"}, title : UnitTitles, link : UnitLinks,
     max_content_length : Limits, max_summary_length : Limits,
     page : UnitPages, reachable : BOOLEAN]

IdleCall ==
    /\ entry = None
    /\ num_results = 0
    /\ pc = "idle"
    /\ raw_results = <<>>
    /\ idx = 0
    /\ results = <<>>
    /\ requests = <<>>
    /\ fetched = <<>>
    /\ error = None
    /\ returned = None
    /\ output = None

NoVariables ==
    [METAPHOR_API_KEY |-> None, GOOGLE_API_KEY |-> None,
     GOOGLE_CSE_ID |-> None]

InitUnit ==
    /\ unit \in UnitInputs
    /\ env = NoVariables
    /\ dotenv = NoVariables
    /\ IdleCall

\* WebSearchResult(title, link, mcl, msl) where requests.get answers
Construct ==
    /\ unit.state = "args"
    /\ unit.reachable
    /\ unit' = [state |-> "built",
                title |-> unit.title, link |-> unit.link,
                max_content_length |-> unit.max_content_length,
                max_summary_length |-> unit.max_summary_length,
                page |-> unit.page, reachable |-> unit.reachable,
                obj |-> WebSearchResult(unit.title, unit.link,
                                        unit.max_content_length,
                                        unit.max_summary_length, unit.page)]
    /\ UNCHANGED callVars

\* ... and where requests.get raises: no object is constructed
ConstructRaises ==
    /\ unit.state = "args"
    /\ ~unit.reachable
    /\ unit' = [state |-> "raised",
                title |-> unit.title, link |-> unit.link,
                max_content_length |-> unit.max_content_length,
                max_summary_length |-> unit.max_summary_length,
                page |-> unit.page, reachable |-> unit.reachable]
    /\ UNCHANGED callVars

NextUnit == Construct \/ ConstructRaises

SpecUnit == InitUnit /\ [][NextUnit]_vars

----------------------------------------------------------------------------
(* The search functions and the tool *)

MetaphorUrl == "https://api.metaphor.systems/search"
GoogleUrl == "customsearch/v1"

MetaphorEntries == {"handle", "metaphor_search"}
Entries == MetaphorEntries \cup {"google_search"}

\* the exception the spec's taxonomy calls ConfigurationError is the
\* ValueError metaphor_search raises for an unset key
ConfigurationError == "ValueError"

\* `if not api_key` passes for a non-empty string only
KeyPresentNotNone(api_key) == api_key # None

KeyPresent(api_key) == api_key # None /\ api_key # ""

\* the entries a backend may list: an object with title and url (link, for
\* google_search), one whose title is null, one that lacks the url key, one
\* that lacks the title key, and an entry that is no object at all
HitSet ==
    {[shape |-> "ok", title |-> "P", url |-> "u1"],
     [shape |-> "ok", title |-> None, url |-> "u3"],
     [shape |-> "nourl", title |-> "Q", url |-> None],
     [shape |-> "notitle", title |-> None, url |-> "u2"],
     [shape |-> "notdict", title |-> None, url |-> None]}

\* what the search endpoint may answer:
\*   raises     the HTTP call raises
\*   notjson    the body is not JSON
\*   notobject  the body is JSON but no object (a list, null, a number)
\*   nolist     the object lacks the key of the list of hits
\*   notlist    the value under that key cannot be iterated as hits (null, a
\*              number, or a non-empty object or string, whose items are str)
\*   hits       it lists entries (any number of them, whatever num_results
\*              asked for; an empty object or string iterates as no entries)
SearchAnswers ==
    {[kind |-> k, hits |-> <<>>] :
        k \in {"raises", "notjson", "notobject", "nolist", "notlist"}}
    \cup {[kind |-> "hits", hits |-> h] : h \in SeqsUpTo(HitSet, MaxHits)}

\* what a page GET may answer with, besides raising
SearchPages == {<<>>, <<" Paris is ", "b\t">>, <<"a\n\nb">>}

EnvSet ==
    [METAPHOR_API_KEY : {None, "", "k"},
     GOOGLE_API_KEY : {None, "k"},
     GOOGLE_CSE_ID : {None, "k"}]

\* the .env files: none (or one without these variables), one that gives the
\* two keys, one that gives all three, one that gives an empty Metaphor key
DotenvSet ==
    {NoVariables,
     [METAPHOR_API_KEY |-> "k", GOOGLE_API_KEY |-> "k", GOOGLE_CSE_ID |-> None],
     [METAPHOR_API_KEY |-> "k", GOOGLE_API_KEY |-> "k", GOOGLE_CSE_ID |-> "k"],
     [METAPHOR_API_KEY |-> "", GOOGLE_API_KEY |-> None, GOOGLE_CSE_ID |-> None]}

\* load_dotenv(): every variable of the .env file that os.environ does not
\* hold yet is set in os.environ; one it holds (even empty) is kept
load_dotenv(e, f) ==
    [v \in DOMAIN e |-> IF e[v] = None THEN f[v] ELSE e[v]]

Init ==
    /\ env \in EnvSet
    /\ dotenv \in DotenvSet
    /\ IdleCall
    /\ unit = NoUnit

\* a new call starts from nothing: every call allocates its own objects;
\* the first statement of both search functions is load_dotenv()
BeginCall(e, n) ==
    /\ pc \in {"idle", "done", "raised"}
    /\ env' = load_dotenv(env, dotenv)
    /\ entry' = e
    /\ num_results' = n
    /\ raw_results' = <<>>
    /\ idx' = 0
    /\ results' = <<>>
    /\ requests' = <<>>
    /\ fetched' = <<>>
    /\ returned' = None
    /\ output' = None
    /\ UNCHANGED <<dotenv, unit>>

\* metaphor_search (called directly or from handle), METAPHOR_API_KEY unset
MetaphorMissingKey ==
    \E e \in MetaphorEntries, n \in 1 .. MaxNumResults :
        /\ BeginCall(e, n)
        /\ ~KeyPresent(env'.METAPHOR_API_KEY)
        /\ pc' = "raised"
        /\ error' = "ValueError"

\* metaphor_search up to the POST
MetaphorStart ==
    \E e \in MetaphorEntries, n \in 1 .. MaxNumResults :
        /\ BeginCall(e, n)
        /\ KeyPresent(env'.METAPHOR_API_KEY)
        /\ pc' = "search"
        /\ error' = None

\* google_search up to the request: the credentials are read, not checked
GoogleStart ==
    \E n \in 1 .. MaxNumResults :
        /\ BeginCall("google_search", n)
        /\ pc' = "search"
        /\ error' = None

SearchRequest(e) ==
    IF e \in MetaphorEntries
    THEN [method |-> "POST", url |-> MetaphorUrl]
    ELSE [method |-> "GET", url |-> GoogleUrl]

PageRequest(hit) == [method |-> "GET", url |-> hit.url]

\* the exceptions an answer that lists no hits ends the call with:
\* json.loads(body) raises, [key] on a non-object raises TypeError, [key] on
\* an object without it raises KeyError, iterating a non-list raises TypeError
AnswerErrors(a, raisedAs, notJsonAs) ==
    CASE a.kind = "raises"    -> {raisedAs}
      [] a.kind = "notjson"   -> notJsonAs
      [] a.kind = "notobject" -> {"TypeError"}
      [] a.kind = "nolist"    -> {"KeyError"}
      [] a.kind = "notlist"   -> {"TypeError"}

\* the outcome of the search request
TakeAnswer(a, raisedAs, notJsonAs) ==
    /\ requests' = Append(requests, SearchRequest(entry))
    /\ IF a.kind = "hits"
       THEN /\ raw_results' = a.hits
            /\ pc' = "normalize"
            /\ error' = None
       ELSE /\ raw_results' = raw_results
            /\ pc' = "raised"
            /\ error' \in AnswerErrors(a, raisedAs, notJsonAs)
    /\ UNCHANGED <<env, dotenv, entry, num_results, idx, results, fetched, returned,
                   output, unit>>

\* requests.post(...) and json.loads(response.text)["results"]
MetaphorPost ==
    /\ pc = "search"
    /\ entry \in MetaphorEntries
    /\ \E a \in SearchAnswers :
           TakeAnswer(a, "RequestException", {"JSONDecodeError"})

\* build(...) and service.cse().list(...).execute()["items"]; the service
\* rejects a request that carries no key or no engine id. What execute()
\* does with a body that is not JSON is the client library's choice: it
\* raises, or hands the body back as a str, which ["items"] cannot index.
GoogleExecute ==
    /\ pc = "search"
    /\ entry = "google_search"
    /\ \E a \in SearchAnswers :
           /\ (env.GOOGLE_API_KEY = None \/ env.GOOGLE_CSE_ID = None)
                 => a.kind = "raises"
           /\ TakeAnswer(a, "HttpError", {"JSONDecodeError", "TypeError"})

PrependResult(list, r) == <<r>> \o list

\* the list comprehension appends in iteration order
AppendResult(list, r) == Append(list, r)

\* one iteration of the list comprehension: the page GET answers
FetchHitOk ==
    /\ pc = "normalize"
    /\ idx < Len(raw_results)
    /\ raw_results[idx + 1].shape = "ok"
    /\ \E page \in SearchPages :
         LET hit == raw_results[idx + 1]
         IN  /\ requests' = Append(requests, PageRequest(hit))
             /\ fetched' = Append(fetched, "ok")
             /\ results' = AppendResult(results,
                               WebSearchResult(hit.title, hit.url,
                                               DefaultMaxContentLength,
                                               DefaultMaxSummaryLength, page))
             /\ idx' = idx + 1
    /\ UNCHANGED <<env, dotenv, entry, num_results, pc, raw_results, error, returned,
                   output, unit>>

\* what a tolerant loop would do with a failed GET
FetchHitSkips ==
    /\ pc = "normalize"
    /\ idx < Len(raw_results)
    /\ raw_results[idx + 1].shape = "ok"
    /\ requests' = Append(requests, PageRequest(raw_results[idx + 1]))
    /\ fetched' = Append(fetched, "raised")
    /\ idx' = idx + 1
    /\ UNCHANGED <<env, dotenv, entry, num_results, pc, raw_results, results, error,
                   returned, output, unit>>

\* one iteration of the list comprehension: the page GET raises, nothing
\* catches it, and the exception leaves the search function and handle
FetchHitRaises ==
    /\ pc = "normalize"
    /\ idx < Len(raw_results)
    /\ raw_results[idx + 1].shape = "ok"
    /\ requests' = Append(requests, PageRequest(raw_results[idx + 1]))
    /\ fetched' = Append(fetched, "raised")
    /\ idx' = idx + 1
    /\ pc' = "raised"
    /\ error' = "RequestException"
    /\ UNCHANGED <<env, dotenv, entry, num_results, raw_results, results, returned,
                   output, unit>>

\* one iteration of the list comprehension: result["title"] or result["url"]
\* (result["link"] in google_search) raises before the constructor is
\* called, so no GET is issued for this entry: KeyError for a missing key,
\* TypeError for an entry that is no object
HitMalformed ==
    /\ pc = "normalize"
    /\ idx < Len(raw_results)
    /\ raw_results[idx + 1].shape # "ok"
    /\ pc' = "raised"
    /\ error' = IF raw_results[idx + 1].shape = "notdict"
                THEN "TypeError" ELSE "KeyError"
    /\ UNCHANGED <<env, dotenv, entry, num_results, raw_results, idx, results,
                   requests, fetched, returned, output, unit>>

RECURSIVE StrAll(_)
StrAll(list) ==
    IF list = <<>> THEN <<>> ELSE <<ToStr(Head(list))>> \o StrAll(Tail(list))

handle_join_single_newline(search_results) ==
    PyJoin("\n", StrAll(search_results))

\* "\n\n".join(str(result) for result in search_results)
handle_join(search_results) == PyJoin("\n\n", StrAll(search_results))

\* the comprehension is exhausted: the list is returned, and handle joins it
Return ==
    /\ pc = "normalize"
    /\ idx = Len(raw_results)
    /\ returned' = results
    /\ output' = IF entry = "handle" THEN handle_join(results) ELSE None
    /\ pc' = "done"
    /\ UNCHANGED <<env, dotenv, entry, num_results, raw_results, idx, results,
                   requests, fetched, error, unit>>

Next ==
    \/ MetaphorMissingKey
    \/ MetaphorStart
    \/ GoogleStart
    \/ MetaphorPost
    \/ GoogleExecute
    \/ FetchHitOk
    \/ FetchHitRaises
    \/ HitMalformed
    \/ Return

Spec == Init /\ [][Next]_vars

----------------------------------------------------------------------------
(* Vocabulary of the properties *)

IsPrefix(p, s) == Len(p) <= Len(s) /\ SubSeq(s, 1, Len(p)) = p

\* length of s[:k] for a string of length n, as Python defines it
SliceLen(n, k) == IF k >= 0 THEN Min(n, k) ELSE Max(0, n + k)

Built == unit.state = "built"
UnitText == ExtractText(unit.page)

\* s.split(sep), left to right without overlap
RECURSIVE PySplit(_, _)
PySplit(s, sep) ==
    LET n == Len(sep)
        at == {i \in 1 .. (Len(s) - n + 1) : SubSeq(s, i, i + n - 1) = sep}
    IN  IF at = {} THEN <<s>>
        ELSE LET i == CHOOSE j \in at : \A k \in at : j <= k
             IN  <<SubSeq(s, 1, i - 1)>>
                 \o PySplit(SubSeq(s, i + n, Len(s)), sep)

\* occurrences of the pattern "Title: ...\nLink: ...\nSummary: ...": three
\* consecutive lines that start with the three labels
PatternCount(s) ==
    LET lines == PySplit(s, "\n")
    IN  Cardinality({i \in 1 .. (Len(lines) - 2) :
                        /\ IsPrefix("Title: ", lines[i])
                        /\ IsPrefix("Link: ", lines[i + 1])
                        /\ IsPrefix("Summary: ", lines[i + 2])})

NoNewline(s) == \A i \in 1 .. Len(s) : SubSeq(s, i, i) # "\n"

NoNewlineInFields(list) ==
    \A i \in 1 .. Len(list) :
        /\ NoNewline(PyFormat(list[i].title))
        /\ NoNewline(PyFormat(list[i].link))
        /\ NoNewline(list[i].summary)

\* where the i-th block starts in the joined string (0-based offset)
RECURSIVE BlockOffset(_, _)
BlockOffset(list, i) ==
    IF i <= 1 THEN 0
    ELSE BlockOffset(list, i - 1) + Len(ToStr(list[i - 1])) + 2

FailCount(log) == Cardinality({i \in 1 .. Len(log) : log[i] = "raised"})

HandleDone == pc = "done" /\ entry = "handle"

----------------------------------------------------------------------------
(* Properties of WebSearchResult, checked under SpecUnit *)

\* C1: for every title, link, page text and pair of limits, the summary of a
\* constructed WebSearchResult is full_content[:max_summary_length]: a prefix
\* of full_content whose length is what Python's slice of full_content gives.
C1_SummaryIsSliceOfFullContent ==
    Built =>
        /\ IsPrefix(unit.obj.summary, unit.obj.full_content)
        /\ Len(unit.obj.summary)
             = SliceLen(Len(unit.obj.full_content), unit.max_summary_length)

\* C1 witness: the summary limit exceeds the content limit and the page text
\* exceeds both, so a summary cut from the page text would be longer.
C1_Witness ==
    /\ Built
    /\ unit.max_content_length > 0
    /\ unit.max_summary_length > unit.max_content_length
    /\ Len(UnitText) > unit.max_summary_length
    /\ unit.obj.summary = unit.obj.full_content

\* C2 as stated: for every max_content_length, full_content is a prefix of
\* the extracted text of length min(len(text), max_content_length), so never
\* longer than max_content_length.
C2_Original ==
    Built =>
        /\ IsPrefix(unit.obj.full_content, UnitText)
        /\ Len(unit.obj.full_content)
             = Min(Len(UnitText), unit.max_content_length)
        /\ Len(unit.obj.full_content) <= unit.max_content_length

\* C2 amended: full_content is always a prefix of the extracted text; its
\* length is min(len(text), max_content_length) when max_content_length >= 0
\* and max(0, len(text) + max_content_length) when it is negative.
C2_FullContentIsTruncatedText ==
    Built =>
        /\ IsPrefix(unit.obj.full_content, UnitText)
        /\ unit.max_content_length >= 0 =>
             /\ Len(unit.obj.full_content)
                  = Min(Len(UnitText), unit.max_content_length)
             /\ Len(unit.obj.full_content) <= unit.max_content_length
        /\ unit.max_content_length < 0 =>
             Len(unit.obj.full_content)
               = Max(0, Len(UnitText) + unit.max_content_length)

\* C2 witness: a text longer than a positive limit is cut to exactly the limit.
C2_Witness ==
    /\ Built
    /\ unit.max_content_length > 0
    /\ Len(UnitText) > unit.max_content_length
    /\ Len(unit.obj.full_content) = unit.max_content_length
    /\ unit.obj.full_content # UnitText

\* C8 as stated: every constructed WebSearchResult has
\* len(summary) <= max_summary_length <= max_content_length and
\* len(full_content) <= max_content_length.
C8_Original ==
    Built =>
        /\ Len(unit.obj.summary) <= unit.max_summary_length
        /\ unit.max_summary_length <= unit.max_content_length
        /\ Len(unit.obj.full_content) <= unit.max_content_length

\* C8 amended: len(summary) <= len(full_content) for every pair of limits;
\* len(summary) <= max_summary_length whenever max_summary_length >= 0;
\* len(full_content) <= max_content_length whenever max_content_length >= 0;
\* the limits are stored as passed, so they are ordered only if the caller
\* passed them ordered.
C8_LengthsWithinLimits ==
    Built =>
        /\ (unit.max_summary_length >= 0 =>
                Len(unit.obj.summary) <= unit.max_summary_length)
        /\ Len(unit.obj.summary) <= Len(unit.obj.full_content)
        /\ (unit.max_content_length >= 0 =>
                Len(unit.obj.full_content) <= unit.max_content_length)
        /\ unit.obj.max_summary_length = unit.max_summary_length
        /\ unit.obj.max_content_length = unit.max_content_length

\* C8 witness: the constructor accepted a summary limit above the content
\* limit, and both lengths reach the content limit.
C8_Witness ==
    /\ Built
    /\ unit.max_content_length >= 1
    /\ unit.obj.max_summary_length > unit.obj.max_content_length
    /\ Len(unit.obj.full_content) = unit.max_content_length
    /\ Len(unit.obj.summary) = unit.max_content_length

----------------------------------------------------------------------------
(* Properties of the search functions and the tool, checked under Spec *)

\* C3 as stated: whenever METAPHOR_API_KEY is unset or empty in the
\* environment at the time metaphor_search or handle is called, the call
\* fails with the configuration error and issues no HTTP request.
C3_Original ==
    [][(/\ pc \in {"idle", "done", "raised"}
        /\ entry' \in MetaphorEntries
        /\ env.METAPHOR_API_KEY \in {None, ""}) =>
           (/\ pc' = "raised"
            /\ error' = ConfigurationError
            /\ requests' = <<>>)]_vars

\* C3 amended: when METAPHOR_API_KEY is unset or empty in the environment the
\* call reads (os.environ once load_dotenv() has run: empty in the process
\* environment, or unset there and given no non-empty value by the .env
\* file), a call of metaphor_search or of handle ends with the configuration
\* error (ValueError) and has issued no HTTP request and returned nothing.
C3_MissingKeyRaisesBeforeAnyRequest ==
    (entry \in MetaphorEntries /\ env.METAPHOR_API_KEY \in {None, ""}) =>
        /\ pc = "raised"
        /\ error = ConfigurationError
        /\ requests = <<>>
        /\ returned = None
        /\ output = None

\* C3 witness: handle was called with an empty key in the process
\* environment, which load_dotenv() did not replace by the file's, and raised.
C3_Witness ==
    /\ entry = "handle"
    /\ env.METAPHOR_API_KEY = ""
    /\ dotenv.METAPHOR_API_KEY = "k"
    /\ pc = "raised"
    /\ error = "ValueError"
    /\ requests = <<>>

\* C4 as stated: for any titles, links and summaries the string handle
\* returns contains exactly N occurrences of the pattern, splits on blank
\* lines into exactly the N blocks, and is empty for N = 0.
C4_Original ==
    HandleDone =>
        /\ PatternCount(output) = Len(returned)
        /\ Len(returned) >= 1 => PySplit(output, "\n\n") = StrAll(returned)
        /\ Len(returned) = 0 => output = ""

\* C4 amended: the string handle returns is the N blocks in order, each but
\* the last followed by "\n\n", and empty for N = 0; when no title, link or
\* summary contains a newline it contains exactly N occurrences of the
\* pattern and splits on blank lines into exactly the N blocks.
C4_JoinedBlocks ==
    HandleDone =>
        LET n == Len(returned)
        IN  /\ n = 0 => output = ""
            /\ n >= 1 => Len(output) = BlockOffset(returned, n + 1) - 2
            /\ \A i \in 1 .. n :
                 LET off == BlockOffset(returned, i)
                     blk == ToStr(returned[i])
                 IN  /\ SubSeq(output, off + 1, off + Len(blk)) = blk
                     /\ i > 1 => SubSeq(output, off - 1, off) = "\n\n"
            /\ NoNewlineInFields(returned) =>
                 /\ PatternCount(output) = n
                 /\ n >= 1 => PySplit(output, "\n\n") = StrAll(returned)

\* C4 witness: handle returned two results with newline-free fields, one of
\* them with a summary cut from a page of two text nodes.
C4_Witness ==
    /\ HandleDone
    /\ Len(returned) = 2
    /\ NoNewlineInFields(returned)
    /\ returned[1].summary = "Paris is b"
    /\ PatternCount(output) = 2

\* C5: the results a search function returns, and the blocks of the string
\* handle returns, are in the backend's order: the i-th carries the title and
\* url of the i-th raw hit (a null title printed as None), none dropped, none
\* repeated.
C5_BackendOrderKept ==
    pc = "done" =>
        /\ Len(returned) = Len(raw_results)
        /\ \A i \in 1 .. Len(raw_results) :
             /\ returned[i].title = raw_results[i].title
             /\ returned[i].link = raw_results[i].url
             /\ entry = "handle" =>
                  LET head == "Title: " \o PyFormat(raw_results[i].title)
                                \o "\nLink: " \o raw_results[i].url
                                \o "\nSummary: "
                      off == BlockOffset(returned, i)
                  IN  SubSeq(output, off + 1, off + Len(head)) = head

\* C5 witness: handle returned three results for three hits, not all alike.
C5_Witness ==
    /\ HandleDone
    /\ Len(raw_results) = 3
    /\ raw_results[1] # raw_results[2]
    /\ raw_results[2] # raw_results[3]
    /\ Len(returned) = 3

\* C6 as stated: when a search lists 3 hits and the page fetch of exactly one
\* of them fails, handle does not raise and returns the 2 other results.
C6_OneFailedFetchIsSkipped ==
    (/\ entry = "handle"
     /\ Len(raw_results) = 3
     /\ FailCount(fetched) = 1
     /\ pc \in {"done", "raised"}) =>
        /\ pc = "done"
        /\ error = None
        /\ Len(returned) = 2
        /\ PatternCount(output) = 2

\* C7 as stated: google_search with GOOGLE_API_KEY or GOOGLE_CSE_ID absent
\* fails with the configuration error before any HTTP request is issued.
C7_GoogleMissingCredentialsRaise ==
    (/\ entry = "google_search"
     /\ (env.GOOGLE_API_KEY = None \/ env.GOOGLE_CSE_ID = None)) =>
        /\ requests = <<>>
        /\ pc # "search" => (pc = "raised" /\ error = ConfigurationError)

\* C9 as stated: handle returns at most num_results serialized results,
\* however many entries the backend's results array holds.
C9_AtMostNumResults ==
    HandleDone =>
        /\ Len(returned) <= num_results
        /\ PatternCount(output) <= num_results

\* C10: a call of metaphor_search issues one POST to the search endpoint and
\* then one GET per hit, in the backend's order, each once; when the POST or
\* a GET fails (or the answer or one of its entries is malformed) the
\* exception leaves the call, no later hit is fetched and nothing is returned.
C10_OneAttemptEachFailFast ==
    entry \in MetaphorEntries =>
        LET gets == [i \in 1 .. idx |-> PageRequest(raw_results[i])]
            allOk == [i \in 1 .. idx |-> "ok"]
        IN  /\ pc = "search" => requests = <<>>
            /\ pc \in {"normalize", "done"} =>
                 /\ requests = <<SearchRequest(entry)>> \o gets
                 /\ fetched = allOk
                 /\ Len(results) = idx
                 /\ idx <= Len(raw_results)
            /\ pc = "done" => idx = Len(raw_results) /\ returned = results
            /\ pc # "done" => returned = None /\ output = None
            /\ (pc = "raised" /\ error = "ValueError") => requests = <<>>
            /\ (pc = "raised" /\ error = "JSONDecodeError") =>
                 requests = <<SearchRequest(entry)>> /\ fetched = <<>>
            /\ (pc = "raised" /\ error \in {"KeyError", "TypeError"}) =>
                 /\ requests = <<SearchRequest(entry)>> \o gets
                 /\ fetched = allOk
                 /\ Len(results) = idx
                 /\ idx < Len(raw_results) \/ raw_results = <<>>
            /\ (pc = "raised" /\ error = "RequestException") =>
                 \/ requests = <<SearchRequest(entry)>> /\ fetched = <<>>
                 \/ /\ idx >= 1
                    /\ requests = <<SearchRequest(entry)>> \o gets
                    /\ fetched = [i \in 1 .. idx |->
                                    IF i < idx THEN "ok" ELSE "raised"]
                    /\ Len(results) = idx - 1

\* C10 witness: the second of three page fetches raised; the third hit was
\* never requested and nothing was returned.
C10_Witness ==
    /\ entry = "metaphor_search"
    /\ pc = "raised"
    /\ Len(raw_results) = 3
    /\ fetched = <<"ok", "raised">>
    /\ Len(requests) = 3
    /\ returned = None

====
